---------------------------- MODULE Spec2Model ----------------------------
(***************************************************************************)
(* Model of utils/chirps_collect_export.py: collect_and_export_chirps.     *)
(*                                                                         *)
(* The procedure is sequential.  Every call that leaves the process (the   *)
(* Earth Engine client, geemap, numpy and os file calls) either returns or *)
(* raises; which of the two is the environment's choice and is modelled as *)
(* a nondeterministic choice between actions.  The program's observable    *)
(* behaviour is recorded in three places: `calls` (the external calls it   *)
(* issued, with their outcome), `out` (what it printed) and `dirs`/`disk`  *)
(* (the local file system).  Elapsed times in messages are left out.       *)
(***************************************************************************)
EXTENDS Integers, Sequences, FiniteSets, TLC

VARIABLES
    pc,             \* position in collect_and_export_chirps
    arg_data_type,  \* the data_type argument as passed by the caller (or NotGiven)
    start_date,     \* parameter
    end_date,       \* parameter
    output_folder,  \* parameter
    data_type,      \* parameter / local, overwritten by its upper-cased value
    dataset,        \* local: the image collection id
    images,         \* the images of CHIRPSCollection, as the service evaluates it
    bandNames,      \* local: result of bandNames().getInfo()
    i,              \* position of the band loop in bandNames
    j,              \* position of the coordinate loop in CoordNames
    dirs,           \* directories created on the local disk
    disk,           \* files on the local disk: path -> content
    calls,          \* external calls issued so far, in order
    out             \* messages printed so far, in order

vars == <<pc, arg_data_type, start_date, end_date, output_folder, data_type,
          dataset, images, bandNames, i, j, dirs, disk, calls, out>>

(***************************************************************************)
(* Bounds of the model.                                                    *)
(***************************************************************************)
MaxImages == 2          \* images in the filtered collection

(***************************************************************************)
(* Strings that the code inspects character by character (data_type) are   *)
(* sequences of one-character strings; all other strings are TLA+ strings. *)
(***************************************************************************)
\* a property an image does not have (img.get returns null)
Null == -1
\* the caller passed no data_type
NotGiven == <<"<not given>">>
\* a local that is not assigned yet
None == "None"

LowerLetters == <<"a","b","c","d","e","f","g","h","i","j","k","l","m",
                  "n","o","p","q","r","s","t","u","v","w","x","y","z">>
UpperLetters == <<"A","B","C","D","E","F","G","H","I","J","K","L","M",
                  "N","O","P","Q","R","S","T","U","V","W","X","Y","Z">>

\* str.upper() on one character: lower-case letters are mapped, the rest kept
UpperChar(c) ==
    IF \E k \in DOMAIN LowerLetters : LowerLetters[k] = c
    THEN UpperLetters[CHOOSE k \in DOMAIN LowerLetters : LowerLetters[k] = c]
    ELSE c

\* a mutant of str.upper(): the first character only (str.capitalize-like slip)
UpperFirstOnly(s) ==
    [k \in DOMAIN s |-> IF k = 1 THEN UpperChar(s[k]) ELSE s[k]]

\* data_type.upper()                                               (line 33)
Upper(s) == [k \in DOMAIN s |-> UpperChar(s[k])]

DAILY == <<"D","A","I","L","Y">>
PENTAD == <<"P","E","N","T","A","D">>

\* the default of the data_type parameter                           (line 8)
DefaultDataType == PENTAD

\* the list tested at line 34
ValidDataTypes == {DAILY, PENTAD}

DailyDataset == "UCSB-CHG/CHIRPS/DAILY"
PentadDataset == "UCSB-CHG/CHIRPS/PENTAD"

\* the dataset id chosen at line 39
DatasetFor(dt) == IF dt = DAILY THEN DailyDataset ELSE PentadDataset

(***************************************************************************)
(* makeBandLabel (lines 49-61).                                            *)
(***************************************************************************)
DigitChar(n) == <<"0","1","2","3","4","5","6","7","8","9">>[n + 1]

\* ee.Number(n).int().format(): the decimal digits of a natural number
RECURSIVE Format(_)
Format(n) == IF n < 10 THEN DigitChar(n)
             ELSE Format(n \div 10) \o DigitChar(n % 10)

\* ee.Number(n).int().format('%02d'): at least two digits, zero padded
Format02(n) == IF n < 10 THEN "0" \o Format(n) ELSE Format(n)

\* the condition of ee.Algorithms.If: null and the number 0 count as false
Truthy(v) == v # Null /\ v # 0

\* a mutant of makeBandLabel: the separator and property do not follow data_type
makeBandLabelAlwaysPentad(img, dt) ==
    LET year == Format(img.year)
        month == Format02(img.month)
        pentad == IF Truthy(img.pentad) THEN Format02(img.pentad) ELSE "XX"
    IN  "y" \o year \o "m" \o month \o "p" \o pentad \o "_Precipitation"

\* the label makeBandLabel gives to the band of img, data_type being dt
makeBandLabel(img, dt) ==
    LET year == Format(img.year)
        month == Format02(img.month)
    IN  IF dt = PENTAD
        THEN LET pentad == IF Truthy(img.pentad) THEN Format02(img.pentad) ELSE "XX"
             IN  "y" \o year \o "m" \o month \o "p" \o pentad \o "_Precipitation"
        ELSE LET day == IF Truthy(img.day) THEN Format02(img.day) ELSE "XX"
             IN  "y" \o year \o "m" \o month \o "d" \o day \o "_Precipitation"

\* system:index of the k-th image of a collection (unique within a collection)
ImageId(k) == "i" \o Format(k)

\* CHIRPSCollection.map(makeBandLabel).toBands().bandNames(): toBands prefixes
\* every band name with the id of the image it came from      (lines 64, 68)
ToBandNames(coll, dt) ==
    [k \in DOMAIN coll |-> ImageId(k) \o "_" \o makeBandLabel(coll[k], dt)]

(***************************************************************************)
(* Inputs.                                                                 *)
(***************************************************************************)
\* spellings of an upper-case word: as is, all lower case, first letter lower
\* case, every other letter lower case
CaseVariants(w) ==
    { [k \in DOMAIN w |->
          IF k \in S
          THEN LowerLetters[CHOOSE n \in DOMAIN UpperLetters : UpperLetters[n] = w[k]]
          ELSE w[k]] :
      S \in { {}, DOMAIN w, {1}, {k \in DOMAIN w : k % 2 = 0} } }

OtherDataTypes ==
    { <<>>, <<"D","A","I","L">>, <<"d","a","i","l","y","s">>,
      <<"P","E","N","T","A","D"," ">>, <<"m","o","n","t","h","l","y">>,
      <<"D","A","1","L","Y">> }

DataTypeArgs == CaseVariants(DAILY) \cup CaseVariants(PENTAD) \cup OtherDataTypes

Dates == {"2020-01-01", "someday"}
IsDate(d) == d = "2020-01-01"

Folders == {"out", ""}
\* a path os.makedirs can create at all
IsFolder(f) == f # ""

\* properties of the images the service holds; pentad is 1..6 and day is
\* 1..31 in the CHIRPS catalogues, either can be absent from an image
Years == {1981, 2000, 2024}
Months == 1..12
Pentads == 1..6
Days == 1..31
ImageProps == [year : Years, month : Months,
               pentad : Pentads \cup {Null}, day : Days \cup {Null}]

\* the images the filtered collection is drawn from in a run of the procedure
ServedImages(ds) ==
    IF ds = DailyDataset
    THEN { [year |-> 2024, month |-> 3, pentad |-> Null, day |-> d] : d \in {Null, 31} }
    ELSE { [year |-> 2024, month |-> 3, pentad |-> p, day |-> Null] : p \in {Null, 6} }

Collections(ds) ==
    UNION { [1..n -> ServedImages(ds)] : n \in 0..MaxImages }

CoordNames == <<"longitude", "latitude">>

(***************************************************************************)
(* Paths, file contents, printed messages, records of external calls.      *)
(***************************************************************************)
\* os.path.join(folder, name)
Join(folder, name) == [dir |-> folder, name |-> name]
NoPath == Join("", "")

\* f"{b}.csv" and f"AOI_{coord}.csv"
BandFile(b) == b \o ".csv"
CoordFile(c) == "AOI_" \o c \o ".csv"

\* the array geemap.ee_to_numpy(...)[:,:,0] returns for a band or a coordinate
Grid(b) == <<"grid", b>>
\* what a np.savetxt that raised may leave behind
Partial == <<"partial">>

\* the disk after np.savetxt(p, content) returned
Write(d, p, content) ==
    {f \in d : f.path # p} \cup {[path |-> p, content |-> content]}

Exists(d, p) == \E f \in d : f.path = p

Call(fn, name, path, outcome) ==
    [fn |-> fn, name |-> name, path |-> path, outcome |-> outcome]

Msg(kind, name, path) == [kind |-> kind, name |-> name, path |-> path]

\* "Earth Engine not initialized. Run `ee.Authenticate()` first."
MsgNotInitialized == Msg("not_initialized", "", NoPath)
\* "Invalid data_type! Choose 'DAILY' or 'PENTAD'."
MsgInvalidDataType == Msg("invalid_data_type", "", NoPath)
\* "Error retrieving band names. The dataset may be empty for the given date range."
MsgBandNamesError == Msg("band_names_error", "", NoPath)
\* "Error processing band {b}. Skipping."
MsgBandError(b) == Msg("band_error", b, NoPath)
\* "No data for band {b}. Skipping export."
MsgNoData(b) == Msg("no_data", b, NoPath)
\* "Failed to create {local_file_path}. Skipping export."
MsgFailedCreate(p) == Msg("failed_create", "", p)
\* "File {local_file_path} created successfully."
MsgCreated(p) == Msg("created", "", p)
\* "Exported {b} in ... seconds."
MsgExportedBand(b) == Msg("exported_band", b, NoPath)
\* "Exported {coord} to {local_file_path}"
MsgExportedCoord(c, p) == Msg("exported_coord", c, p)
\* "Error exporting {coord}. Skipping."
MsgCoordError(c) == Msg("coord_error", c, NoPath)
\* "Total time taken: ... seconds."
MsgTotal == Msg("total", "", NoPath)

(***************************************************************************)
(* Initial state: the call collect_and_export_chirps(start_date, end_date, *)
(* output_folder, aoi[, data_type]) on an empty output location.           *)
(***************************************************************************)
Init ==
    /\ pc = "initialize"
    /\ arg_data_type \in DataTypeArgs \cup {NotGiven}
    /\ data_type = IF arg_data_type = NotGiven THEN DefaultDataType ELSE arg_data_type
    /\ start_date \in Dates
    /\ end_date \in Dates
    /\ output_folder \in Folders
    /\ dataset = None
    /\ images = <<>>
    /\ bandNames = <<>>
    /\ i = 0
    /\ j = 0
    /\ dirs = {}
    /\ disk = {}
    /\ calls = <<>>
    /\ out = <<>>

(***************************************************************************)
(* ee.Initialize()                                          (lines 25-30)  *)
(***************************************************************************)
InitializeOk ==
    /\ pc = "initialize"
    /\ calls' = Append(calls, Call("ee.Initialize", "", NoPath, "ok"))
    /\ pc' = "validate"
    /\ UNCHANGED <<arg_data_type, start_date, end_date, output_folder, data_type,
                   dataset, images, bandNames, i, j, dirs, disk, out>>

\* a mutant of InitializeRaises: the return after the message is missing
InitializeRaisesNoReturn ==
    /\ pc = "initialize"
    /\ calls' = Append(calls, Call("ee.Initialize", "", NoPath, "raise"))
    /\ out' = Append(out, MsgNotInitialized)
    /\ pc' = "validate"
    /\ UNCHANGED <<arg_data_type, start_date, end_date, output_folder, data_type,
                   dataset, images, bandNames, i, j, dirs, disk>>

InitializeRaises ==
    /\ pc = "initialize"
    /\ calls' = Append(calls, Call("ee.Initialize", "", NoPath, "raise"))
    /\ out' = Append(out, MsgNotInitialized)
    /\ pc' = "done"
    /\ UNCHANGED <<arg_data_type, start_date, end_date, output_folder, data_type,
                   dataset, images, bandNames, i, j, dirs, disk>>

(***************************************************************************)
(* data_type validation                                     (lines 32-36)  *)
(* and the construction of the query                        (lines 38-64)  *)
(***************************************************************************)
\* a mutant of ValidateReject: the return after the message is missing
ValidateRejectNoReturn ==
    /\ pc = "validate"
    /\ data_type' = Upper(data_type)
    /\ data_type' \notin ValidDataTypes
    /\ out' = Append(out, MsgInvalidDataType)
    /\ dataset' = DatasetFor(data_type')
    /\ calls' = calls \o << Call("ee.ImageCollection", dataset', NoPath, "ok"),
                            Call("filterBounds", "aoi", NoPath, "ok"),
                            Call("filterDate", start_date, NoPath, "ok"),
                            Call("map.toBands", "", NoPath, "ok") >>
    /\ pc' = "band_names"
    /\ UNCHANGED <<arg_data_type, start_date, end_date, output_folder,
                   images, bandNames, i, j, dirs, disk>>

ValidateReject ==
    /\ pc = "validate"
    /\ data_type' = Upper(data_type)
    /\ data_type' \notin ValidDataTypes
    /\ out' = Append(out, MsgInvalidDataType)
    /\ pc' = "done"
    /\ UNCHANGED <<arg_data_type, start_date, end_date, output_folder,
                   dataset, images, bandNames, i, j, dirs, disk, calls>>

ValidateAccept ==
    /\ pc = "validate"
    /\ data_type' = Upper(data_type)
    /\ data_type' \in ValidDataTypes
    /\ dataset' = DatasetFor(data_type')
    /\ calls' = calls \o << Call("ee.ImageCollection", dataset', NoPath, "ok"),
                            Call("filterBounds", "aoi", NoPath, "ok"),
                            Call("filterDate", start_date, NoPath, "ok"),
                            Call("map.toBands", "", NoPath, "ok") >>
    /\ pc' = "band_names"
    /\ UNCHANGED <<arg_data_type, start_date, end_date, output_folder,
                   images, bandNames, i, j, dirs, disk, out>>

(***************************************************************************)
(* chirpsExportImage.bandNames().getInfo()                  (lines 66-71)  *)
(***************************************************************************)
\* the request evaluates the whole query on the service, which cannot parse a
\* filter date that is no date: only a query with two dates returns
BandNamesOk ==
    /\ pc = "band_names"
    /\ IsDate(start_date) /\ IsDate(end_date)
    /\ \E coll \in Collections(dataset) :
          /\ images' = coll
          /\ bandNames' = ToBandNames(coll, data_type)
    /\ calls' = Append(calls, Call("getInfo", "", NoPath, "ok"))
    /\ pc' = "makedirs"
    /\ UNCHANGED <<arg_data_type, start_date, end_date, output_folder, data_type,
                   dataset, i, j, dirs, disk, out>>

\* a mutant of BandNamesRaises: the return after the message is missing
BandNamesRaisesNoReturn ==
    /\ pc = "band_names"
    /\ calls' = Append(calls, Call("getInfo", "", NoPath, "raise"))
    /\ out' = Append(out, MsgBandNamesError)
    /\ pc' = "makedirs"
    /\ UNCHANGED <<arg_data_type, start_date, end_date, output_folder, data_type,
                   dataset, images, bandNames, i, j, dirs, disk>>

BandNamesRaises ==
    /\ pc = "band_names"
    /\ calls' = Append(calls, Call("getInfo", "", NoPath, "raise"))
    /\ out' = Append(out, MsgBandNamesError)
    /\ pc' = "done"
    /\ UNCHANGED <<arg_data_type, start_date, end_date, output_folder, data_type,
                   dataset, images, bandNames, i, j, dirs, disk>>

(***************************************************************************)
(* os.makedirs(output_folder, exist_ok=True)                (lines 73-74)  *)
(***************************************************************************)
MakedirsOk ==
    /\ pc = "makedirs"
    /\ IsFolder(output_folder)
    /\ calls' = Append(calls, Call("os.makedirs", output_folder, NoPath, "ok"))
    /\ dirs' = dirs \cup {output_folder}
    /\ i' = 1
    /\ pc' = "band_loop"
    /\ UNCHANGED <<arg_data_type, start_date, end_date, output_folder, data_type,
                   dataset, images, bandNames, j, disk, out>>

\* the exception is not caught: it leaves collect_and_export_chirps
MakedirsRaises ==
    /\ pc = "makedirs"
    /\ calls' = Append(calls, Call("os.makedirs", output_folder, NoPath, "raise"))
    /\ pc' = "raised"
    /\ UNCHANGED <<arg_data_type, start_date, end_date, output_folder, data_type,
                   dataset, images, bandNames, i, j, dirs, disk, out>>

(***************************************************************************)
(* The band loop, one iteration per action                  (lines 76-106) *)
(***************************************************************************)
\* select(b) or geemap.ee_to_numpy(...)[:,:,0] raises (a None returned by
\* ee_to_numpy raises at the subscript): caught, the band is skipped
BandConvertRaises ==
    /\ pc = "band_loop"
    /\ i <= Len(bandNames)
    /\ LET b == bandNames[i] IN
          /\ calls' = Append(calls, Call("ee_to_numpy", b, NoPath, "raise"))
          /\ out' = Append(out, MsgBandError(b))
    /\ i' = i + 1
    /\ UNCHANGED <<pc, arg_data_type, start_date, end_date, output_folder, data_type,
                   dataset, images, bandNames, j, dirs, disk>>

\* a mutant of BandEmpty: the size check is missing, the empty array is saved
BandEmptyExported ==
    /\ pc = "band_loop"
    /\ i <= Len(bandNames)
    /\ LET b == bandNames[i]
           local_file_path == Join(output_folder, BandFile(b))
       IN
          /\ calls' = calls \o << Call("ee_to_numpy", b, NoPath, "empty"),
                                  Call("np.savetxt", b, local_file_path, "ok"),
                                  Call("os.path.exists", b, local_file_path, "True") >>
          /\ disk' = Write(disk, local_file_path, <<>>)
          /\ out' = out \o << MsgCreated(local_file_path), MsgExportedBand(b) >>
    /\ i' = i + 1
    /\ UNCHANGED <<pc, arg_data_type, start_date, end_date, output_folder, data_type,
                   dataset, images, bandNames, j, dirs>>

\* the array has size 0: the band is skipped                 (lines 89-91)
BandEmpty ==
    /\ pc = "band_loop"
    /\ i <= Len(bandNames)
    /\ LET b == bandNames[i] IN
          /\ calls' = Append(calls, Call("ee_to_numpy", b, NoPath, "empty"))
          /\ out' = Append(out, MsgNoData(b))
    /\ i' = i + 1
    /\ UNCHANGED <<pc, arg_data_type, start_date, end_date, output_folder, data_type,
                   dataset, images, bandNames, j, dirs, disk>>

\* np.savetxt raises: nothing catches it, the exception leaves the procedure;
\* the file is absent or incomplete                           (lines 94-95)
BandSaveRaises ==
    /\ pc = "band_loop"
    /\ i <= Len(bandNames)
    /\ LET b == bandNames[i]
           local_file_path == Join(output_folder, BandFile(b))
       IN
          /\ calls' = calls \o << Call("ee_to_numpy", b, NoPath, "ok"),
                                  Call("np.savetxt", b, local_file_path, "raise") >>
          /\ \/ disk' = disk
             \/ disk' = Write(disk, local_file_path, Partial)
    /\ pc' = "raised"
    /\ UNCHANGED <<arg_data_type, start_date, end_date, output_folder, data_type,
                   dataset, images, bandNames, i, j, dirs, out>>

\* a mutant of BandFileMissing: success is reported without the existence check
BandFileMissingReported ==
    /\ pc = "band_loop"
    /\ i <= Len(bandNames)
    /\ LET b == bandNames[i]
           local_file_path == Join(output_folder, BandFile(b))
       IN
          /\ calls' = calls \o << Call("ee_to_numpy", b, NoPath, "ok"),
                                  Call("np.savetxt", b, local_file_path, "ok") >>
          /\ disk' = {f \in disk : f.path # local_file_path}
          /\ out' = out \o << MsgCreated(local_file_path), MsgExportedBand(b) >>
    /\ i' = i + 1
    /\ UNCHANGED <<pc, arg_data_type, start_date, end_date, output_folder, data_type,
                   dataset, images, bandNames, j, dirs>>

\* np.savetxt returned but os.path.exists answers False (the file was removed
\* from outside in between): the band is skipped             (lines 98-100)
BandFileMissing ==
    /\ pc = "band_loop"
    /\ i <= Len(bandNames)
    /\ LET b == bandNames[i]
           local_file_path == Join(output_folder, BandFile(b))
       IN
          /\ calls' = calls \o << Call("ee_to_numpy", b, NoPath, "ok"),
                                  Call("np.savetxt", b, local_file_path, "ok"),
                                  Call("os.path.exists", b, local_file_path, "False") >>
          /\ disk' = {f \in disk : f.path # local_file_path}
          /\ out' = Append(out, MsgFailedCreate(local_file_path))
    /\ i' = i + 1
    /\ UNCHANGED <<pc, arg_data_type, start_date, end_date, output_folder, data_type,
                   dataset, images, bandNames, j, dirs>>

\* the band is written and reported                         (lines 94-106)
BandExported ==
    /\ pc = "band_loop"
    /\ i <= Len(bandNames)
    /\ LET b == bandNames[i]
           chirps_arr == Grid(b)
           local_file_path == Join(output_folder, BandFile(b))
       IN
          /\ calls' = calls \o << Call("ee_to_numpy", b, NoPath, "ok"),
                                  Call("np.savetxt", b, local_file_path, "ok"),
                                  Call("os.path.exists", b, local_file_path, "True") >>
          /\ disk' = Write(disk, local_file_path, chirps_arr)
          /\ out' = out \o << MsgCreated(local_file_path), MsgExportedBand(b) >>
    /\ i' = i + 1
    /\ UNCHANGED <<pc, arg_data_type, start_date, end_date, output_folder, data_type,
                   dataset, images, bandNames, j, dirs>>

\* the list is exhausted; lonlatimage is built               (lines 108-109)
BandLoopDone ==
    /\ pc = "band_loop"
    /\ i > Len(bandNames)
    /\ calls' = Append(calls, Call("pixelLonLat.reproject", "", NoPath, "ok"))
    /\ j' = 1
    /\ pc' = "coord_loop"
    /\ UNCHANGED <<arg_data_type, start_date, end_date, output_folder, data_type,
                   dataset, images, bandNames, i, dirs, disk, out>>

(***************************************************************************)
(* The longitude/latitude loop                              (lines 110-117)*)
(***************************************************************************)
CoordExported ==
    /\ pc = "coord_loop"
    /\ j <= Len(CoordNames)
    /\ LET coord == CoordNames[j]
           lonlat_arr == Grid(coord)
           local_file_path == Join(output_folder, CoordFile(coord))
       IN
          /\ calls' = calls \o << Call("ee_to_numpy", coord, NoPath, "ok"),
                                  Call("np.savetxt", coord, local_file_path, "ok") >>
          /\ disk' = Write(disk, local_file_path, lonlat_arr)
          /\ out' = Append(out, MsgExportedCoord(coord, local_file_path))
    /\ j' = j + 1
    /\ UNCHANGED <<pc, arg_data_type, start_date, end_date, output_folder, data_type,
                   dataset, images, bandNames, i, dirs>>

CoordConvertRaises ==
    /\ pc = "coord_loop"
    /\ j <= Len(CoordNames)
    /\ LET coord == CoordNames[j] IN
          /\ calls' = Append(calls, Call("ee_to_numpy", coord, NoPath, "raise"))
          /\ out' = Append(out, MsgCoordError(coord))
    /\ j' = j + 1
    /\ UNCHANGED <<pc, arg_data_type, start_date, end_date, output_folder, data_type,
                   dataset, images, bandNames, i, dirs, disk>>

\* np.savetxt raises inside the try: caught, the coordinate is skipped
CoordSaveRaises ==
    /\ pc = "coord_loop"
    /\ j <= Len(CoordNames)
    /\ LET coord == CoordNames[j]
           local_file_path == Join(output_folder, CoordFile(coord))
       IN
          /\ calls' = calls \o << Call("ee_to_numpy", coord, NoPath, "ok"),
                                  Call("np.savetxt", coord, local_file_path, "raise") >>
          /\ \/ disk' = disk
             \/ disk' = Write(disk, local_file_path, Partial)
          /\ out' = Append(out, MsgCoordError(coord))
    /\ j' = j + 1
    /\ UNCHANGED <<pc, arg_data_type, start_date, end_date, output_folder, data_type,
                   dataset, images, bandNames, i, dirs>>

\* the total time is printed and the procedure returns      (lines 119-121)
Finish ==
    /\ pc = "coord_loop"
    /\ j > Len(CoordNames)
    /\ out' = Append(out, MsgTotal)
    /\ pc' = "done"
    /\ UNCHANGED <<arg_data_type, start_date, end_date, output_folder, data_type,
                   dataset, images, bandNames, i, j, dirs, disk, calls>>

Next ==
    \/ InitializeOk
    \/ InitializeRaises
    \/ ValidateReject
    \/ ValidateAccept
    \/ BandNamesOk
    \/ BandNamesRaises
    \/ MakedirsOk
    \/ MakedirsRaises
    \/ BandConvertRaises
    \/ BandEmpty
    \/ BandSaveRaises
    \/ BandFileMissing
    \/ BandExported
    \/ BandLoopDone
    \/ CoordExported
    \/ CoordConvertRaises
    \/ CoordSaveRaises
    \/ Finish

Spec == Init /\ [][Next]_vars

(***************************************************************************)
(* makeBandLabel on its own: img.rename([label]) applied to one image of   *)
(* either catalogue, over the whole range of the image properties.         *)
(***************************************************************************)
LabelInit ==
    /\ pc = "label"
    /\ arg_data_type \in ValidDataTypes
    /\ data_type = arg_data_type
    /\ start_date = "2020-01-01"
    /\ end_date = "2020-01-01"
    /\ output_folder = "out"
    /\ dataset = DatasetFor(data_type)
    /\ images \in { <<p>> : p \in ImageProps }
    /\ bandNames = <<>>
    /\ i = 0
    /\ j = 0
    /\ dirs = {}
    /\ disk = {}
    /\ calls = <<>>
    /\ out = <<>>

\* the band names of the images after CHIRPSCollection.map(makeBandLabel)
ApplyMakeBandLabel ==
    /\ pc = "label"
    /\ bandNames' = [k \in DOMAIN images |-> makeBandLabel(images[k], data_type)]
    /\ pc' = "labelled"
    /\ UNCHANGED <<arg_data_type, start_date, end_date, output_folder, data_type,
                   dataset, images, i, j, dirs, disk, calls, out>>

LabelNext == ApplyMakeBandLabel

SpecLabel == LabelInit /\ [][LabelNext]_vars

(***************************************************************************)
(* Vocabulary of the properties.                                           *)
(***************************************************************************)
Range(s) == {s[k] : k \in DOMAIN s}

Terminated == pc \in {"done", "raised"}

\* the band loop was entered
ReachedBandLoop == i >= 1

BandPath(b) == Join(output_folder, BandFile(b))
CoordPath(c) == Join(output_folder, CoordFile(c))

\* number of np.savetxt calls on p that returned
SavedCount(p) ==
    Cardinality({k \in DOMAIN calls :
        calls[k].fn = "np.savetxt" /\ calls[k].path = p /\ calls[k].outcome = "ok"})

SaveRaised(p) ==
    \E k \in DOMAIN calls :
        calls[k].fn = "np.savetxt" /\ calls[k].path = p /\ calls[k].outcome = "raise"

\* the conversion of band b returned a non-empty array
Converted(b) == Call("ee_to_numpy", b, NoPath, "ok") \in Range(calls)

\* the conversion of band b raised or returned an empty array
ConversionFailed(b) ==
    \/ Call("ee_to_numpy", b, NoPath, "raise") \in Range(calls)
    \/ Call("ee_to_numpy", b, NoPath, "empty") \in Range(calls)

HoldsGrid(p, b) == \A f \in disk : f.path = p => f.content = Grid(b)

IsCoordAttempt(c) == c.fn = "ee_to_numpy" /\ c.name \in Range(CoordNames)
IsBandAttempt(c) == c.fn = "ee_to_numpy" /\ c.name \notin Range(CoordNames)

\* the names the conversions were attempted for, in order
Attempted(s) == [k \in DOMAIN s |-> s[k].name]
CoordAttempts == Attempted(SelectSeq(calls, IsCoordAttempt))
BandAttempts == Attempted(SelectSeq(calls, IsBandAttempt))

QueryFns == {"ee.ImageCollection", "filterBounds", "filterDate", "map.toBands", "getInfo"}
QueryIssued == \E k \in DOMAIN calls : calls[k].fn \in QueryFns

NothingWritten ==
    /\ dirs = {}
    /\ disk = {}
    /\ \A k \in DOMAIN calls : calls[k].fn \notin {"os.makedirs", "np.savetxt"}

(***************************************************************************)
(* C1, as stated: for every retrieved band name b, <output_folder>/<b>.csv *)
(* is written once, holding the band's grid, if and only if the conversion *)
(* of b succeeded with a non-empty array; otherwise b gets no file.        *)
(***************************************************************************)
C1_WrittenIffConverted ==
    \A k \in DOMAIN bandNames :
        LET b == bandNames[k] IN
        /\ SavedCount(BandPath(b)) = IF Converted(b) THEN 1 ELSE 0
        /\ HoldsGrid(BandPath(b), b)
        /\ ConversionFailed(b) => ~Exists(disk, BandPath(b))

(***************************************************************************)
(* C1, amended: for every retrieved band name b, <output_folder>/<b>.csv   *)
(* is written once, holding the band's grid, if and only if the conversion *)
(* of b succeeded with a non-empty array and np.savetxt did not raise for  *)
(* it; a band whose conversion raised or whose array is empty gets no file.*)
(***************************************************************************)
C1_WrittenIffConvertedAndSaved ==
    \A k \in DOMAIN bandNames :
        LET b == bandNames[k] IN
        /\ SavedCount(BandPath(b)) =
              IF Converted(b) /\ ~SaveRaised(BandPath(b)) THEN 1 ELSE 0
        /\ SavedCount(BandPath(b)) = 1 => HoldsGrid(BandPath(b), b)
        /\ ConversionFailed(b) => ~Exists(disk, BandPath(b))

\* a finished run where one band was skipped on a failed conversion and
\* another one was written
C1_Witness ==
    /\ pc = "done"
    /\ MsgTotal \in Range(out)
    /\ \E k, n \in DOMAIN bandNames :
          /\ ConversionFailed(bandNames[k])
          /\ ~Exists(disk, BandPath(bandNames[k]))
          /\ Converted(bandNames[n])
          /\ SavedCount(BandPath(bandNames[n])) = 1
          /\ [path |-> BandPath(bandNames[n]), content |-> Grid(bandNames[n])] \in disk

(***************************************************************************)
(* C2: an exception raised at any step of an iteration of the band loop    *)
(* or of the longitude/latitude loop is caught inside that iteration: once *)
(* the band loop is entered the procedure never ends by an exception, and  *)
(* it ends only after every band and both coordinates were processed.      *)
(***************************************************************************)
C2_SwallowedPerIteration ==
    (ReachedBandLoop /\ Terminated) =>
        /\ pc = "done"
        /\ i = Len(bandNames) + 1
        /\ j = Len(CoordNames) + 1

(***************************************************************************)
(* C3: every run that reaches the band loop attempts both coordinate       *)
(* grids, longitude first and latitude second, whatever happened to the    *)
(* bands and whether or not the longitude export failed.                   *)
(***************************************************************************)
C3_CoordinatesAlwaysAttempted ==
    (ReachedBandLoop /\ Terminated) => CoordAttempts = CoordNames

(***************************************************************************)
(* C4, as stated: two distinct string parameters are validated, i.e. for   *)
(* each of them an invalid value stops the procedure before any            *)
(* filter/query call is issued and before anything is written.             *)
(***************************************************************************)
StringParams == {"data_type", "start_date", "end_date", "output_folder"}

InvalidValue(param) ==
    CASE param = "data_type" -> Upper(data_type) \notin {DAILY, PENTAD}
      [] param = "start_date" -> ~IsDate(start_date)
      [] param = "end_date" -> ~IsDate(end_date)
      [] param = "output_folder" -> ~IsFolder(output_folder)

C4_TwoInputsValidated ==
    \E P \in SUBSET StringParams :
        /\ Cardinality(P) = 2
        /\ \A param \in P : InvalidValue(param) => ~QueryIssued /\ NothingWritten

(***************************************************************************)
(* C4, amended: exactly one string parameter, data_type, is validated: an  *)
(* invalid data_type stops the procedure at the validation step, before    *)
(* any filter/query call is issued and before anything is written, and the *)
(* validation rejects if and only if data_type is invalid, whatever the    *)
(* values of start_date, end_date and output_folder.                       *)
(***************************************************************************)
ValidationDone == dataset # None \/ MsgInvalidDataType \in Range(out)

C4_OnlyDataTypeValidated ==
    /\ InvalidValue("data_type") =>
          /\ ~QueryIssued
          /\ NothingWritten
          /\ pc \in {"initialize", "validate", "done"}
    /\ ValidationDone =>
          /\ MsgInvalidDataType \in Range(out) <=> InvalidValue("data_type")
          /\ QueryIssued <=> ~InvalidValue("data_type")

\* a call rejected at the validation step although its other string inputs
\* are fine, and nothing was queried or written
C4_Witness ==
    /\ pc = "done"
    /\ InvalidValue("data_type")
    /\ out = <<MsgInvalidDataType>>
    /\ IsDate(start_date) /\ IsDate(end_date) /\ IsFolder(output_folder)
    /\ ~QueryIssued

(***************************************************************************)
(* C5: the steps occur in the order initialization, data_type validation,  *)
(* filter/query calls and band-name retrieval, creation of the output      *)
(* folder, band loop, longitude/latitude export; a step is started only    *)
(* after its predecessors succeeded; no filter/query call is issued for an *)
(* invalid data_type; after a failed initialization data_type is not       *)
(* examined and only the initialization message is printed.                *)
(***************************************************************************)
Stage(c) ==
    CASE c.fn = "ee.Initialize" -> 1
      [] c.fn \in {"ee.ImageCollection", "filterBounds", "filterDate", "map.toBands"} -> 2
      [] c.fn = "getInfo" -> 3
      [] c.fn = "os.makedirs" -> 4
      [] c.fn = "pixelLonLat.reproject" -> 6
      [] OTHER -> IF c.name \in Range(CoordNames) THEN 6 ELSE 5

InitializationFailed == calls # <<>> /\ calls[1] = Call("ee.Initialize", "", NoPath, "raise")

BoundDataType == IF arg_data_type = NotGiven THEN PENTAD ELSE arg_data_type

C5_FixedOrder ==
    /\ calls # <<>> => Stage(calls[1]) = 1
    /\ \A k \in DOMAIN calls : k > 1 =>
          /\ Stage(calls[k - 1]) <= Stage(calls[k])
          /\ (Stage(calls[k - 1]) < Stage(calls[k]) /\ Stage(calls[k - 1]) <= 4)
                => calls[k - 1].outcome = "ok"
    /\ \A k \in DOMAIN calls : Stage(calls[k]) >= 2 =>
          /\ data_type \in {DAILY, PENTAD}
          /\ MsgInvalidDataType \notin Range(out)
    /\ \A k \in DOMAIN calls : Stage(calls[k]) = 5 =>
          /\ output_folder \in dirs
          /\ \E n \in DOMAIN calls : n < k /\ calls[n].fn = "getInfo"
    /\ \A k \in DOMAIN calls : Stage(calls[k]) = 6 => i = Len(bandNames) + 1
    /\ MsgTotal \in Range(out) => j = Len(CoordNames) + 1 /\ out[Len(out)] = MsgTotal
    /\ InitializationFailed =>
          /\ Len(calls) = 1
          /\ out = <<MsgNotInitialized>>
          /\ data_type = BoundDataType
          /\ pc = "done"

\* a run that went through every step, with two bands
C5_Witness ==
    /\ pc = "done"
    /\ Len(bandNames) = 2
    /\ out[Len(out)] = MsgTotal
    /\ {Stage(calls[k]) : k \in DOMAIN calls} = 1..6

(***************************************************************************)
(* C6: data_type is accepted if and only if it spells DAILY or PENTAD in   *)
(* any letter case; the dataset queried is UCSB-CHG/CHIRPS/DAILY for DAILY *)
(* and UCSB-CHG/CHIRPS/PENTAD for PENTAD; without a data_type argument the *)
(* dataset is the PENTAD one.                                              *)
(***************************************************************************)
SameLetter(a, b) ==
    \/ a = b
    \/ \E k \in DOMAIN LowerLetters : {a, b} = {LowerLetters[k], UpperLetters[k]}

Spells(s, w) == Len(s) = Len(w) /\ \A k \in DOMAIN w : SameLetter(s[k], w[k])

C6_AcceptedDataTypes ==
    ValidationDone =>
        /\ dataset # None <=>
              \/ arg_data_type = NotGiven
              \/ Spells(arg_data_type, DAILY)
              \/ Spells(arg_data_type, PENTAD)
        /\ dataset = None <=> MsgInvalidDataType \in Range(out)
        /\ (arg_data_type # NotGiven /\ Spells(arg_data_type, DAILY))
              => dataset = "UCSB-CHG/CHIRPS/DAILY" /\ data_type = DAILY
        /\ (arg_data_type # NotGiven /\ Spells(arg_data_type, PENTAD))
              => dataset = "UCSB-CHG/CHIRPS/PENTAD" /\ data_type = PENTAD
        /\ arg_data_type = NotGiven
              => dataset = "UCSB-CHG/CHIRPS/PENTAD" /\ data_type = PENTAD

\* a mixed-case spelling of DAILY was accepted and the daily dataset queried
C6_Witness ==
    /\ arg_data_type \notin {DAILY, PENTAD, NotGiven}
    /\ arg_data_type # Upper(arg_data_type)
    /\ Spells(arg_data_type, DAILY)
    /\ dataset = "UCSB-CHG/CHIRPS/DAILY"
    /\ Call("ee.ImageCollection", "UCSB-CHG/CHIRPS/DAILY", NoPath, "ok") \in Range(calls)

(***************************************************************************)
(* C7: makeBandLabel names the band 'y' + year + 'm' + two-digit month +   *)
(* sep + two-digit part + '_Precipitation', with sep 'p' and part the      *)
(* pentad property for PENTAD, sep 'd' and part the day property for       *)
(* DAILY, and part 'XX' when that property is missing.                     *)
(***************************************************************************)
TwoDigits ==
    <<"01", "02", "03", "04", "05", "06", "07", "08", "09", "10",
      "11", "12", "13", "14", "15", "16", "17", "18", "19", "20",
      "21", "22", "23", "24", "25", "26", "27", "28", "29", "30", "31">>

YearText(y) ==
    CASE y = 1981 -> "1981"
      [] y = 2000 -> "2000"
      [] y = 2024 -> "2024"

ExpectedLabel(img, dt) ==
    LET sep == IF dt = PENTAD THEN "p" ELSE "d"
        v == IF dt = PENTAD THEN img.pentad ELSE img.day
        part == IF v = Null THEN "XX" ELSE TwoDigits[v]
    IN  "y" \o YearText(img.year) \o "m" \o TwoDigits[img.month]
            \o sep \o part \o "_Precipitation"

C7_BandLabel ==
    pc = "labelled" =>
        /\ DOMAIN bandNames = DOMAIN images
        /\ \A k \in DOMAIN images : bandNames[k] = ExpectedLabel(images[k], data_type)

\* a daily image without a day property, carrying a pentad property, labelled
C7_Witness ==
    /\ pc = "labelled"
    /\ data_type = DAILY
    /\ images[1] = [year |-> 2024, month |-> 3, pentad |-> 6, day |-> Null]
    /\ bandNames = <<"y2024m03dXX_Precipitation">>

(***************************************************************************)
(* C8: on each early-return path (initialization fails, data_type is       *)
(* invalid, band-name retrieval raises) the procedure returns normally     *)
(* with the local disk unchanged: no output folder, no file, and no        *)
(* total-time message.                                                     *)
(***************************************************************************)
DataTypeRejected ==
    /\ pc \notin {"initialize", "validate"}
    /\ ~InitializationFailed
    /\ data_type \notin {DAILY, PENTAD}

BandNamesFailed == Call("getInfo", "", NoPath, "raise") \in Range(calls)

C8_EarlyReturnLeavesDiskUnchanged ==
    (InitializationFailed \/ DataTypeRejected \/ BandNamesFailed) =>
        /\ pc = "done"
        /\ NothingWritten
        /\ MsgTotal \notin Range(out)
        /\ Len(out) = 1

\* the band-name retrieval raised and the procedure returned
C8_Witness ==
    /\ pc = "done"
    /\ BandNamesFailed
    /\ out = <<MsgBandNamesError>>
    /\ dirs = {} /\ disk = {}

(***************************************************************************)
(* C9: every run ends; the band loop visits each retrieved band name once, *)
(* in list order; every run that passed the three early checks ends by     *)
(* printing the total-time message after the longitude/latitude export.    *)
(***************************************************************************)
PassedEarlyChecks == Call("getInfo", "", NoPath, "ok") \in Range(calls)

C9_EndsWithTotalTime ==
    (Terminated /\ PassedEarlyChecks) =>
        /\ BandAttempts = bandNames
        /\ out # <<>>
        /\ out[Len(out)] = MsgTotal
        /\ CoordAttempts = CoordNames

(***************************************************************************)
(* C10: in every reachable state every file the procedure has written is   *)
(* <b>.csv for a retrieved band name b, AOI_longitude.csv or               *)
(* AOI_latitude.csv, directly inside output_folder; the success message of *)
(* a band file is printed only after the file has been written and exists. *)
(***************************************************************************)
AllowedNames ==
    {BandFile(b) : b \in Range(bandNames)} \cup {"AOI_longitude.csv", "AOI_latitude.csv"}

AllowedPath(p) == p.dir = output_folder /\ p.name \in AllowedNames

C10_FilesWritten ==
    /\ \A f \in disk : AllowedPath(f.path)
    /\ \A k \in DOMAIN calls : calls[k].fn = "np.savetxt" => AllowedPath(calls[k].path)
    /\ \A k \in DOMAIN out : out[k].kind = "created" =>
          /\ SavedCount(out[k].path) >= 1
          /\ Exists(disk, out[k].path)
          /\ \E b \in Range(bandNames) : out[k].path = BandPath(b)

\* one band file was reported as created, another one was found missing
C10_Witness ==
    /\ \E k \in DOMAIN out : out[k].kind = "created" /\ Exists(disk, out[k].path)
    /\ \E k \in DOMAIN out : out[k].kind = "failed_create" /\ ~Exists(disk, out[k].path)
    /\ [path |-> CoordPath("longitude"), content |-> Grid("longitude")] \in disk

=============================================================================
